---- MODULE Spec2Model ----
(***************************************************************************)
(* A model of dd-manager (astro): the Datadog sync helpers of              *)
(* pkg/util/datadog.go, the ruleset store and matcher of                   *)
(* pkg/config/config.go, the template renderer of                          *)
(* pkg/handler/deployments.go and the per-resource work queue the          *)
(* controller is built on.                                                 *)
(*                                                                         *)
(* Go pointers are modelled as sequences of length <= 1: <<>> is nil and   *)
(* <<x>> points at x.  A nil-pointer dereference or a write to a nil map   *)
(* is a Go panic; no caller in the sources recovers, so the process dies:  *)
(* panicked becomes TRUE and no operation runs afterwards.                 *)
(***************************************************************************)
EXTENDS Integers, Sequences, FiniteSets, TLC

VARIABLES
    \* ---- the Datadog backend and the last sync operation (datadog.go)
    monitors,      \* the backend's monitor records, in creation order
    nextId,        \* the id the backend gives the next created monitor
    op,            \* the last operation of pkg/util: kind, argument, results
    listed,        \* what GetProvisionedMonitors returned to it
    calls,         \* the backend calls it issued, in order
    \* ---- the process
    panicked,      \* TRUE once a Go panic has killed the process
    \* ---- the ruleset store (config.go)
    Rulesets,      \* config.Rulesets
    fetch,         \* per source, the outcome of loadFromPath + yaml.Unmarshal in the last reload
    lastGood,      \* per source, the rules of its last successful fetch (history)
    prior,         \* config.Rulesets before the last reload (history)
    reloads,       \* number of reloads run so far
    \* ---- the matcher (config.go)
    call,          \* the last matcher call: function and arguments
    ret,           \* what it returned
    \* ---- the renderer (deployments.go)
    template,      \* the monitor handed to applyDeploymentTemplate, as it was on entry
    rendered,      \* the monitor after applyDeploymentTemplate, <<>> before
    deployment,    \* the deployment handed to applyDeploymentTemplate
    renderErrs,    \* the fields whose Execute returned an error
    \* ---- the work queue of one resource controller
    queue,         \* the keys waiting for a worker, in order
    dirty,         \* the keys that need a reconcile
    processing,    \* the keys a worker is reconciling
    waiting,       \* the keys whose retry waits for its backoff to expire
    worker,        \* per worker, the key it reconciles (<<>> when idle)
    retries,       \* per key, the requeues since its last success or drop
    events,        \* number of change events delivered so far
    inflightEvents,\* per key, the events that arrived during its reconcile in flight (history)
    burst,         \* per key, inflightEvents as its last reconcile completed (history)
    extra          \* per key, the reconciles started since then (history)

syncVars   == <<monitors, nextId, op, listed, calls>>
reloadVars == <<Rulesets, fetch, lastGood, prior, reloads>>
matchVars  == <<call, ret>>
renderVars == <<template, rendered, deployment, renderErrs>>
queueVars  == <<queue, dirty, processing, waiting, worker, retries, events,
                inflightEvents, burst, extra>>
vars == <<syncVars, panicked, reloadVars, matchVars, renderVars, queueVars>>

(***************************************************************************)
(* Bounds of the model.                                                    *)
(***************************************************************************)
MaxProvisioned == 2   \* monitors the backend holds at most
MaxAnnotations == 2   \* required annotations of a rule at most
MaxRules       == 1   \* rules of a ruleset the matcher is run on at most
MaxReloads     == 2   \* reloads of the ruleset store
MaxTokens      == 2   \* tokens of a template text at most
MaxEvents      == 4   \* change events delivered to a controller
MaxRetries     == 1   \* rate-limited requeues of a key before it is dropped
NumWorkers     == 2   \* workers consuming one queue

\* A sequence's elements.
Range(s) == {s[i] : i \in 1..Len(s)}

\* All sequences over S of length <= n.
SeqUpTo(S, n) == UNION {[1..k -> S] : k \in 0..n}

(***************************************************************************)
(* pkg/util/datadog.go                                                     *)
(***************************************************************************)
\* The nil *int a datadog.Monitor carries as Id until the backend sets one.
NoId == 0

\* getEnv("OWNER", "dd-manager")
OwnerTag == "dd-manager"

\* conf.Thresholds values used by the desired monitors.
Thresholds == [Ok |-> 0, Critical |-> 90, Warning |-> 80, Unknown |-> 0,
               CriticalRecovery |-> 85, WarningRecovery |-> 75]

\* The desired monitors (conf.Monitor) the sync operations are run on.
DesiredMonitors ==
    { [Name |-> n, Type |-> "metric alert", Query |-> q, Message |-> "msg",
       Tags |-> t, NoDataTimeframe |-> 10, NotifyAudit |-> FALSE,
       NotifyNoData |-> TRUE, RenotifyInterval |-> 5, NewHostDelay |-> 300,
       EvaluationDelay |-> 60, Timeout |-> 1, EscalationMessage |-> "esc",
       Thresholds |-> Thresholds, RequireFullWindow |-> TRUE, Locked |-> l] :
      n \in {"A", "B"}, q \in {"q1", "q2"},
      t \in {<<OwnerTag>>, <<"team:web">>}, l \in BOOLEAN }

\* toDdMonitor: every field of the conf.Monitor is copied; Id is not set.
toDdMonitor(in) ==
    [Id |-> NoId, Type |-> in.Type, Query |-> in.Query, Name |-> in.Name,
     Message |-> in.Message, Tags |-> in.Tags,
     Options |-> [NoDataTimeframe |-> in.NoDataTimeframe,
                  NotifyAudit |-> in.NotifyAudit,
                  NotifyNoData |-> in.NotifyNoData,
                  RenotifyInterval |-> in.RenotifyInterval,
                  NewHostDelay |-> in.NewHostDelay,
                  EvaluationDelay |-> in.EvaluationDelay,
                  TimeoutH |-> in.Timeout,
                  EscalationMessage |-> in.EscalationMessage,
                  Thresholds |-> [Ok |-> in.Thresholds.Ok,
                                  Critical |-> in.Thresholds.Critical,
                                  Warning |-> in.Thresholds.Warning,
                                  Unknown |-> in.Thresholds.Unknown,
                                  CriticalRecovery |-> in.Thresholds.CriticalRecovery,
                                  WarningRecovery |-> in.Thresholds.WarningRecovery],
                  RequireFullWindow |-> in.RequireFullWindow,
                  Locked |-> in.Locked]]

\* toMonitor: the struct literal names every field of conf.Monitor but
\* Locked, which therefore keeps Go's zero value, false.
toMonitor(in) ==
    [Name |-> in.Name, Type |-> in.Type, Query |-> in.Query,
     Message |-> in.Message, Tags |-> in.Tags,
     NoDataTimeframe |-> in.Options.NoDataTimeframe,
     NotifyAudit |-> in.Options.NotifyAudit,
     NotifyNoData |-> in.Options.NotifyNoData,
     RenotifyInterval |-> in.Options.RenotifyInterval,
     NewHostDelay |-> in.Options.NewHostDelay,
     EvaluationDelay |-> in.Options.EvaluationDelay,
     Timeout |-> in.Options.TimeoutH,
     EscalationMessage |-> in.Options.EscalationMessage,
     Thresholds |-> [Ok |-> in.Options.Thresholds.Ok,
                     Critical |-> in.Options.Thresholds.Critical,
                     Warning |-> in.Options.Thresholds.Warning,
                     Unknown |-> in.Options.Thresholds.Unknown,
                     CriticalRecovery |-> in.Options.Thresholds.CriticalRecovery,
                     WarningRecovery |-> in.Options.Thresholds.WarningRecovery],
     RequireFullWindow |-> in.Options.RequireFullWindow,
     Locked |-> FALSE]

\* GetProvisionedMonitors: client.GetMonitorsByTags([config.OwnerTag]); the
\* backend answers with its records carrying the tag, or with an error.
GetProvisionedMonitors(listFails) ==
    IF listFails
    THEN [monitors |-> <<>>, err |-> TRUE]
    ELSE [monitors |-> SelectSeq(monitors, LAMBDA m : OwnerTag \in Range(m.Tags)),
          err |-> FALSE]

\* The first index of a record of ms named name, 0 when there is none.
RECURSIVE FirstNamed(_, _, _)
FirstNamed(ms, name, i) ==
    IF i > Len(ms) THEN 0
    ELSE IF ms[i].Name = name THEN i
    ELSE FirstNamed(ms, name, i + 1)

\* GetProvisionedMonitor: a list error is returned as it is; otherwise the
\* first listed monitor with the desired name, or "Monitor does not exist.".
GetProvisionedMonitor(listFails, m) ==
    LET got == GetProvisionedMonitors(listFails)
        i   == FirstNamed(got.monitors, m.Name, 1)
    IN  IF got.err THEN [ddMonitor |-> <<>>, err |-> TRUE, list |-> got]
        ELSE IF i # 0 THEN [ddMonitor |-> <<got.monitors[i]>>, err |-> FALSE, list |-> got]
        ELSE [ddMonitor |-> <<>>, err |-> TRUE, list |-> got]

ListCall == [call |-> "list", tag |-> OwnerTag]

\* createMonitor: client.CreateMonitor(monitor).
createMonitor(dd) == [call |-> "create", monitor |-> dd]

\* updateMonitor: client.UpdateMonitor(monitor); the record addressed is the
\* one the payload's Id names.
updateMonitor(dd) == [call |-> "update", id |-> dd.Id, monitor |-> dd]

\* client.DeleteMonitor(id)
deleteMonitor(id) == [call |-> "delete", id |-> id]

\* The backend's answers to an update: it addresses a record by the
\* payload's Id; a payload without one reaches no record, and the client,
\* which formats *monitor.Id into the URL, fails on it (an error, or the
\* nil dereference's panic).
UpdateOutcomes(dd) ==
    IF dd.Id = NoId THEN {"err", "panic"} ELSE {"ok", "err"}

\* The backend's records after an update that succeeded.
Updated(dd) ==
    [i \in 1..Len(monitors) |-> IF monitors[i].Id = dd.Id THEN dd ELSE monitors[i]]

\* Which branch AddOrUpdate takes on GetProvisionedMonitor's result.
AddOrUpdateBranch(got, m) ==
    IF got.err THEN "create"
    ELSE IF m = toMonitor(got.ddMonitor[1]) THEN "uptodate"
    ELSE "update"

\* AddOrUpdate
AddOrUpdate(m, listFails, outcome) ==
    LET got    == GetProvisionedMonitor(listFails, m)
        branch == AddOrUpdateBranch(got, m)
        dd     == toDdMonitor(m)
    IN  /\ ~panicked
        /\ listed' = got.list
        /\ \/ /\ branch = "create"
              /\ outcome \in {"ok", "err"}
              /\ outcome = "ok" => Len(monitors) < MaxProvisioned
              /\ calls' = <<ListCall, createMonitor(dd)>>
              /\ monitors' = IF outcome = "ok"
                             THEN Append(monitors, [dd EXCEPT !.Id = nextId])
                             ELSE monitors
              /\ nextId' = IF outcome = "ok" THEN nextId + 1 ELSE nextId
              /\ op' = [kind |-> "AddOrUpdate", monitor |-> m, branch |-> branch,
                        id |-> IF outcome = "ok" THEN nextId ELSE NoId,
                        err |-> outcome = "err"]
              /\ UNCHANGED panicked
           \/ /\ branch = "uptodate"
              /\ outcome = "ok"
              /\ calls' = <<ListCall>>
              /\ op' = [kind |-> "AddOrUpdate", monitor |-> m, branch |-> branch,
                        id |-> got.ddMonitor[1].Id, err |-> FALSE]
              /\ UNCHANGED <<monitors, nextId, panicked>>
           \/ /\ branch = "update"
              /\ outcome \in UpdateOutcomes(dd)
              /\ calls' = <<ListCall, updateMonitor(dd)>>
              /\ monitors' = IF outcome = "ok" THEN Updated(dd) ELSE monitors
              /\ panicked' = (outcome = "panic")
              /\ op' = [kind |-> "AddOrUpdate", monitor |-> m, branch |-> branch,
                        id |-> got.ddMonitor[1].Id, err |-> outcome # "ok"]
              /\ UNCHANGED nextId
        /\ UNCHANGED <<reloadVars, matchVars, renderVars, queueVars>>

\* The body of DeleteMonitor after the lookup: the delete call sits under
\* err != nil, and its argument *ddMonitor.Id is evaluated first; there
\* ddMonitor is nil, so the dereference panics before any call is made.
\* With err == nil (the monitor was found) the function returns nil.
DeleteMonitorResult(got) ==
    IF got.err
    THEN IF got.ddMonitor = <<>>
         THEN [calls |-> <<>>, panic |-> TRUE]
         ELSE [calls |-> <<deleteMonitor(got.ddMonitor[1].Id)>>, panic |-> FALSE]
    ELSE [calls |-> <<>>, panic |-> FALSE]

\* The ids the delete calls of cs name.
DeletedIds(cs) == {cs[i].id : i \in {j \in 1..Len(cs) : cs[j].call = "delete"}}

\* DeleteMonitor
DeleteMonitor(m, listFails) ==
    LET got == GetProvisionedMonitor(listFails, m)
        res == DeleteMonitorResult(got)
    IN  /\ ~panicked
        /\ listed' = got.list
        /\ calls' = <<ListCall>> \o res.calls
        /\ panicked' = res.panic
        /\ monitors' = SelectSeq(monitors, LAMBDA x : x.Id \notin DeletedIds(res.calls))
        /\ op' = [kind |-> "DeleteMonitor", monitor |-> m,
                  branch |-> IF res.panic THEN "panic" ELSE "return",
                  id |-> NoId, err |-> FALSE]
        /\ UNCHANGED <<nextId, reloadVars, matchVars, renderVars, queueVars>>

(***************************************************************************)
(* pkg/config/config.go: the ruleset store                                 *)
(***************************************************************************)
\* A Go map is nil or allocated; kv is its content as a function.
NilMap == [isNil |-> TRUE, kv |-> <<>>]

\* The map literal a YAML document's cluster_variables unmarshals to.
MakeMap(f) == [isNil |-> FALSE, kv |-> f]

\* m[k] = v on an allocated map.
MapPut(m, k, v) ==
    [m EXCEPT !.kv = [x \in DOMAIN m.kv \cup {k} |-> IF x = k THEN v ELSE m.kv[x]]]

\* ruleset{}: the zero value, with a nil ClusterVariables and no MonitorSets.
EmptyRuleset == [ClusterVariables |-> NilMap, MonitorSets |-> <<>>]

\* datadog.Monitor as the rules carry it: the matcher reads Name and Tags.
RuleMonitors ==
    << [Name |-> "cpu", Tags |-> <<"env:prod">>], [Name |-> "mem", Tags |-> <<>>] >>

\* Annotation{Name, Value}: the annotations the rules require.
AnnotationPairs ==
    {[Name |-> "a", Value |-> "1"], [Name |-> "a", Value |-> "2"],
     [Name |-> "b", Value |-> "2"]}

\* MonitorSet{ObjectType, Annotations, BoundObjects, Monitors}
MonitorSet(t, as) ==
    [ObjectType |-> t, Annotations |-> as, BoundObjects |-> <<"deployment">>,
     Monitors |-> RuleMonitors]

\* config.MonitorDefinitionsPath: envAsMap("DEFINITIONS_PATH", ...)
MonitorDefinitionsPath == <<"conf.yml", "https://rules.example/conf.yml">>

\* The rules the sources' documents are made of.
SourceRuleA == MonitorSet("deployment", <<[Name |-> "a", Value |-> "1"]>>)
SourceRuleB == MonitorSet("binding", <<[Name |-> "b", Value |-> "2"]>>)

\* What loadFromPath and yaml.Unmarshal make of one source: an error of
\* either, or the parsed ruleset rSet.
SourceOutcomes ==
    {[err |-> e, rSet |-> EmptyRuleset] : e \in {"load", "unmarshal"}}
    \cup
    {[err |-> "none", rSet |-> [ClusterVariables |-> cv, MonitorSets |-> ms]] :
        cv \in {NilMap, MakeMap([k \in {"cluster"} |-> "east"]),
                MakeMap([k \in {"cluster", "region"} |-> "west"])},
        ms \in {<<>>, <<SourceRuleA>>, <<SourceRuleB>>, <<SourceRuleB, SourceRuleA>>}}

\* for k, v := range rSet.ClusterVariables { collection.ClusterVariables[k] = v }
\* over the keys not yet visited; a write to a nil map panics.
RECURSIVE copyClusterVariables(_, _, _)
copyClusterVariables(dst, src, keys) ==
    IF keys = {} THEN [map |-> dst, panic |-> FALSE]
    ELSE IF dst.isNil THEN [map |-> dst, panic |-> TRUE]
    ELSE LET k == CHOOSE x \in keys : TRUE
         IN  copyClusterVariables(MapPut(dst, k, src.kv[k]), src, keys \ {k})

\* The loop of reloadRulesets from source i on, rulesetCollection being coll.
RECURSIVE reloadLoop(_, _, _)
reloadLoop(outcomes, i, coll) ==
    IF i > Len(outcomes) THEN [coll |-> coll, panic |-> FALSE]
    ELSE IF outcomes[i].err # "none" THEN reloadLoop(outcomes, i + 1, coll)
    ELSE LET rSet   == outcomes[i].rSet
             merged == [coll EXCEPT !.MonitorSets = @ \o rSet.MonitorSets]
             copied == copyClusterVariables(merged.ClusterVariables,
                                            rSet.ClusterVariables,
                                            DOMAIN rSet.ClusterVariables.kv)
         IN  IF copied.panic THEN [coll |-> merged, panic |-> TRUE]
             ELSE reloadLoop(outcomes, i + 1,
                             [merged EXCEPT !.ClusterVariables = copied.map])

\* reloadRulesets: rulesetCollection starts as &ruleset{} and is published
\* after the loop; a panic inside the loop publishes nothing.
reloadRulesets(outcomes) ==
    LET res == reloadLoop(outcomes, 1, EmptyRuleset)
    IN  /\ ~panicked
        /\ reloads < MaxReloads
        /\ Rulesets' = IF res.panic THEN Rulesets ELSE res.coll
        /\ panicked' = res.panic
        /\ fetch' = outcomes
        /\ lastGood' = [s \in DOMAIN outcomes |->
                           IF outcomes[s].err = "none"
                           THEN <<outcomes[s].rSet.MonitorSets>>
                           ELSE lastGood[s]]
        /\ prior' = Rulesets
        /\ reloads' = reloads + 1
        /\ UNCHANGED <<syncVars, matchVars, renderVars, queueVars>>

(***************************************************************************)
(* pkg/config/config.go: the matcher                                       *)
(***************************************************************************)
\* The inner loop without its break: a mismatch clears hasAllAnnotations
\* and the loop goes on, so the last required annotation decides.
RECURSIVE annotationLoopNoBreak(_, _, _, _)
annotationLoopNoBreak(required, annotations, i, h) ==
    IF i > Len(required) THEN h
    ELSE annotationLoopNoBreak(required, annotations, i + 1,
                               /\ required[i].Name \in DOMAIN annotations
                               /\ annotations[required[i].Name] = required[i].Value)

\* The inner loop of getMatchingRulesets from required annotation i on,
\* hasAllAnnotations being h: a match sets it, a mismatch clears it and
\* breaks.
RECURSIVE annotationLoop(_, _, _, _)
annotationLoop(required, annotations, i, h) ==
    IF i > Len(required) THEN h
    ELSE IF /\ required[i].Name \in DOMAIN annotations
            /\ annotations[required[i].Name] = required[i].Value
         THEN annotationLoop(required, annotations, i + 1, TRUE)
         ELSE FALSE

\* getMatchingRulesets with hasAllAnnotations declared true: a rule that
\* requires nothing keeps it true.
getMatchingRulesetsInitTrue(annotations, objectType) ==
    SelectSeq(Rulesets.MonitorSets,
              LAMBDA monitorSet :
                  /\ monitorSet.ObjectType = objectType
                  /\ annotationLoop(monitorSet.Annotations, annotations, 1, TRUE))

\* getMatchingRulesets: the rules of the object's type for which the inner
\* loop, entered with hasAllAnnotations = false, ends with it true.
getMatchingRulesets(annotations, objectType) ==
    SelectSeq(Rulesets.MonitorSets,
              LAMBDA monitorSet :
                  /\ monitorSet.ObjectType = objectType
                  /\ annotationLoop(monitorSet.Annotations, annotations, 1, FALSE))

\* Concatenation of the Monitors of the rules mSets[i..].
RECURSIVE appendMonitors(_, _)
appendMonitors(mSets, i) ==
    IF i > Len(mSets) THEN <<>>
    ELSE mSets[i].Monitors \o appendMonitors(mSets, i + 1)

\* GetMatchingMonitors
GetMatchingMonitors(annotations, objectType) ==
    appendMonitors(getMatchingRulesets(annotations, objectType), 1)

\* contains
contains(slice, key) == \E i \in 1..Len(slice) : slice[i] = key

\* for _, monitor := range ms { monitor.Tags = append(monitor.Tags, tag) }:
\* monitor is a copy of ms[i]; the assignment changes the copy's slice
\* header and no element of ms.  The result is ms after the loop, with the
\* last value of the loop variable beside it.
RECURSIVE rangeAppendTag(_, _, _, _)
rangeAppendTag(ms, tag, i, last) ==
    IF i > Len(ms) THEN [slice |-> ms, monitor |-> last]
    ELSE LET monitor == [ms[i] EXCEPT !.Tags = Append(@, tag)]
         IN  rangeAppendTag(ms, tag, i + 1, <<monitor>>)

\* MonitorSet.AppendTag
AppendTag(mSet, tag) ==
    [mSet EXCEPT !.Monitors = rangeAppendTag(mSet.Monitors, tag, 1, <<>>).slice]

\* The loop of GetBoundMonitors over the matching binding rules mSets[i..]:
\* AppendTag, then the same range loop inline, then the append of
\* mSet.Monitors.
RECURSIVE boundLoop(_, _, _)
boundLoop(mSets, objectType, i) ==
    IF i > Len(mSets) THEN <<>>
    ELSE IF contains(mSets[i].BoundObjects, objectType)
         THEN LET tagged == AppendTag(mSets[i], "dd-manager:bound_object")
                  again  == rangeAppendTag(tagged.Monitors, "dd-manager:bound_object", 1, <<>>).slice
              IN  again \o boundLoop(mSets, objectType, i + 1)
         ELSE boundLoop(mSets, objectType, i + 1)

\* GetBoundMonitors: nsErr is the namespace lookup failing, nsAnnotations
\* the namespace's annotations when it does not.
GetBoundMonitors(nsErr, nsAnnotations, objectType) ==
    IF nsErr THEN <<>>
    ELSE boundLoop(getMatchingRulesets(nsAnnotations, "binding"), objectType, 1)

\* The annotation maps of the objects and namespaces matched.
ObjectAnnotations ==
    UNION {[names -> {"1", "2"}] : names \in SUBSET {"a", "b"}}

\* The rules of the rulesets the matcher is run on.
MatchRules ==
    {MonitorSet(t, as) : t \in {"deployment", "binding"},
                         as \in SeqUpTo(AnnotationPairs, MaxAnnotations)}

\* The matcher reads config.Rulesets and changes nothing, so one call per
\* behaviour shows all it does.
\* A call of getMatchingRulesets.
CallGetMatchingRulesets(annotations, objectType) ==
    /\ ~panicked
    /\ call = <<>>
    /\ call' = [fn |-> "getMatchingRulesets", annotations |-> annotations,
                objectType |-> objectType, nsErr |-> FALSE]
    /\ ret' = getMatchingRulesets(annotations, objectType)
    /\ UNCHANGED <<syncVars, panicked, reloadVars, renderVars, queueVars>>

\* A call of GetMatchingMonitors.
CallGetMatchingMonitors(annotations, objectType) ==
    /\ ~panicked
    /\ call = <<>>
    /\ call' = [fn |-> "GetMatchingMonitors", annotations |-> annotations,
                objectType |-> objectType, nsErr |-> FALSE]
    /\ ret' = GetMatchingMonitors(annotations, objectType)
    /\ UNCHANGED <<syncVars, panicked, reloadVars, renderVars, queueVars>>

\* A call of GetBoundMonitors.
CallGetBoundMonitors(nsErr, nsAnnotations, objectType) ==
    /\ ~panicked
    /\ call = <<>>
    /\ call' = [fn |-> "GetBoundMonitors", annotations |-> nsAnnotations,
                objectType |-> objectType, nsErr |-> nsErr]
    /\ ret' = GetBoundMonitors(nsErr, nsAnnotations, objectType)
    /\ UNCHANGED <<syncVars, panicked, reloadVars, renderVars, queueVars>>

(***************************************************************************)
(* pkg/handler/deployments.go: the renderer                                *)
(*                                                                         *)
(* A template text is a sequence of tokens: literal text, the action       *)
(* {{.Name}} (a field the deployment has), the action {{.Missing}} (a      *)
(* field it has not: Execute fails there) and the unclosed "{{" (Parse     *)
(* fails on the text).  Rendered text is the sequence of strings written.  *)
(***************************************************************************)
Tokens == {"cpu on ", "{{.Name}}", "{{.Missing}}", "{{"}

\* The texts of a monitor's templated fields.
Texts == SeqUpTo(Tokens, MaxTokens) \ {<<>>}

\* The deployments rendered against.
Deployments == {[Name |-> "web"], [Name |-> "api"]}

\* The fields applyDeploymentTemplate renders, in its order.
TextFields == <<"Name", "Query", "Message", "EscalationMessage">>

\* conf.Monitor as the renderer reads and writes it.
Templates == [Name : Texts, Query : Texts, Message : Texts, EscalationMessage : Texts]

\* template.New(..).Parse(text): (nil, err) for a text with an unclosed
\* action, the template otherwise.  The caller drops err.
Parse(text) == IF "{{" \in Range(text) THEN <<>> ELSE <<text>>

\* (*Template).Execute(&tpl, deployment) from token i on, buf being the
\* buffer's content: output is written as it is produced, and the first
\* action that cannot be evaluated ends the execution with an error.
RECURSIVE Execute(_, _, _, _)
Execute(t, d, i, buf) ==
    IF i > Len(t) THEN [buf |-> buf, err |-> FALSE]
    ELSE IF t[i] = "{{.Missing}}" THEN [buf |-> buf, err |-> TRUE]
    ELSE IF t[i] = "{{.Name}}" THEN Execute(t, d, i + 1, Append(buf, d.Name))
    ELSE Execute(t, d, i + 1, Append(buf, t[i]))

\* The body of applyDeploymentTemplate from field i on: parsed holds the
\* four templates parsed on entry, m the monitor so far, errs the fields
\* whose Execute failed.  Execute on a nil template dereferences it: a
\* panic.  After each Execute the field is set to tpl.String() whatever
\* err is, and tpl is reset, so each Execute starts on an empty buffer.
RECURSIVE executeFields(_, _, _, _, _)
executeFields(parsed, d, i, m, errs) ==
    IF i > Len(TextFields) THEN [monitor |-> m, errs |-> errs, panic |-> FALSE]
    ELSE LET f == TextFields[i]
         IN  IF parsed[f] = <<>>
             THEN [monitor |-> m, errs |-> errs, panic |-> TRUE]
             ELSE LET ex == Execute(parsed[f][1], d, 1, <<>>)
                  IN  executeFields(parsed, d, i + 1,
                                    [m EXCEPT ![f] = ex.buf],
                                    IF ex.err THEN errs \cup {f} ELSE errs)

\* applyDeploymentTemplate
applyDeploymentTemplate(d, m) ==
    LET parsed == [f \in Range(TextFields) |-> Parse(m[f])]
        res    == executeFields(parsed, d, 1, m, {})
    IN  /\ ~panicked
        /\ rendered = <<>>
        /\ rendered' = res.monitor
        /\ renderErrs' = res.errs
        /\ panicked' = res.panic
        /\ UNCHANGED <<template, deployment, syncVars, reloadVars, matchVars, queueVars>>

(***************************************************************************)
(* The resource controller's work queue (a rate-limiting work queue, as    *)
(* TestCreateDeploymentController asserts of DeployWatcher.wq), its        *)
(* workers and the event handlers that feed it.                            *)
(***************************************************************************)
\* The object keys of one resource type.
Keys == {"owned-namespace/foo", "owned-namespace/bar"}

Workers == 1..NumWorkers

\* The queue's Add without the check of dirty: every call appends.
AddTwice(k) ==
    /\ dirty' = dirty \cup {k}
    /\ queue' = IF k \in processing THEN queue ELSE Append(queue, k)

\* The queue's Add: a key already marked dirty is dropped; a key being
\* processed is marked dirty and not queued; any other is marked and queued.
Add(k) ==
    IF k \in dirty
    THEN UNCHANGED <<dirty, queue>>
    ELSE /\ dirty' = dirty \cup {k}
         /\ queue' = IF k \in processing THEN queue ELSE Append(queue, k)

\* An add, update or delete event for key k: the handler adds k to the
\* queue.  An event not met by a reconcile in flight ends the window in
\* which the reconciles after the last completion are counted.
OnEvent(k) ==
    /\ ~panicked
    /\ events < MaxEvents
    /\ events' = events + 1
    /\ Add(k)
    /\ IF k \in processing
       THEN /\ inflightEvents' = [inflightEvents EXCEPT ![k] = @ + 1]
            /\ UNCHANGED <<burst, extra>>
       ELSE /\ burst' = [burst EXCEPT ![k] = 0]
            /\ extra' = [extra EXCEPT ![k] = 0]
            /\ UNCHANGED inflightEvents
    /\ UNCHANGED <<processing, waiting, worker, retries>>
    /\ UNCHANGED <<syncVars, panicked, reloadVars, matchVars, renderVars>>

\* The queue's Get by idle worker w: the head of the queue becomes
\* processing and is no longer dirty; its reconcile is in flight.
Get(w) ==
    /\ ~panicked
    /\ worker[w] = <<>>
    /\ queue # <<>>
    /\ LET k == Head(queue)
       IN  /\ queue' = Tail(queue)
           /\ processing' = processing \cup {k}
           /\ dirty' = dirty \ {k}
           /\ worker' = [worker EXCEPT ![w] = <<k>>]
           /\ inflightEvents' = [inflightEvents EXCEPT ![k] = 0]
           /\ extra' = [extra EXCEPT ![k] = IF burst[k] >= 1 THEN @ + 1 ELSE @]
    /\ UNCHANGED <<waiting, retries, events, burst>>
    /\ UNCHANGED <<syncVars, panicked, reloadVars, matchVars, renderVars>>

\* The queue's Done: k is no longer processing, and is queued if it was
\* marked dirty meanwhile.
Done(k) ==
    /\ processing' = processing \ {k}
    /\ queue' = IF k \in dirty THEN Append(queue, k) ELSE queue
    /\ UNCHANGED dirty

\* Worker w's reconcile succeeded: Forget and Done.
ReconcileSucceeded(w) ==
    /\ ~panicked
    /\ worker[w] # <<>>
    /\ LET k == worker[w][1]
       IN  /\ Done(k)
           /\ retries' = [retries EXCEPT ![k] = 0]
           /\ burst' = [burst EXCEPT ![k] = inflightEvents[k]]
           /\ extra' = [extra EXCEPT ![k] = 0]
    /\ worker' = [worker EXCEPT ![w] = <<>>]
    /\ UNCHANGED <<waiting, events, inflightEvents>>
    /\ UNCHANGED <<syncVars, panicked, reloadVars, matchVars, renderVars>>

\* Worker w's reconcile failed: below the retry ceiling the key is
\* requeued once its backoff expires (AddRateLimited), at the ceiling it
\* is dropped (Forget); then Done.
ReconcileFailed(w) ==
    /\ ~panicked
    /\ worker[w] # <<>>
    /\ LET k == worker[w][1]
       IN  /\ Done(k)
           /\ IF retries[k] < MaxRetries
              THEN /\ retries' = [retries EXCEPT ![k] = @ + 1]
                   /\ waiting' = waiting \cup {k}
              ELSE /\ retries' = [retries EXCEPT ![k] = 0]
                   /\ UNCHANGED waiting
           /\ burst' = [burst EXCEPT ![k] = inflightEvents[k]]
           /\ extra' = [extra EXCEPT ![k] = 0]
    /\ worker' = [worker EXCEPT ![w] = <<>>]
    /\ UNCHANGED <<events, inflightEvents>>
    /\ UNCHANGED <<syncVars, panicked, reloadVars, matchVars, renderVars>>

\* The backoff of k's retry expires: the key is added to the queue.  Like
\* an event, a retry not met by a reconcile in flight ends the window.
BackoffExpired(k) ==
    /\ ~panicked
    /\ k \in waiting
    /\ waiting' = waiting \ {k}
    /\ Add(k)
    /\ IF k \in processing
       THEN /\ inflightEvents' = [inflightEvents EXCEPT ![k] = @ + 1]
            /\ UNCHANGED <<burst, extra>>
       ELSE /\ burst' = [burst EXCEPT ![k] = 0]
            /\ extra' = [extra EXCEPT ![k] = 0]
            /\ UNCHANGED inflightEvents
    /\ UNCHANGED <<processing, worker, retries, events>>
    /\ UNCHANGED <<syncVars, panicked, reloadVars, matchVars, renderVars>>

(***************************************************************************)
(* The sync helpers run against the backend.                               *)
(***************************************************************************)
NoOp == [kind |-> "none", monitor |-> <<>>, branch |-> "none", id |-> NoId, err |-> FALSE]

SyncIdle ==
    /\ monitors = <<>>
    /\ nextId = 1
    /\ op = NoOp
    /\ listed = [monitors |-> <<>>, err |-> FALSE]
    /\ calls = <<>>

ReloadIdle ==
    /\ Rulesets = EmptyRuleset
    /\ fetch = <<>>
    /\ lastGood = [s \in DOMAIN MonitorDefinitionsPath |-> <<>>]
    /\ prior = EmptyRuleset
    /\ reloads = 0

MatchIdle ==
    /\ call = <<>>
    /\ ret = <<>>

RenderIdle ==
    /\ template = <<>>
    /\ rendered = <<>>
    /\ deployment = <<>>
    /\ renderErrs = {}

QueueIdle ==
    /\ queue = <<>>
    /\ dirty = {}
    /\ processing = {}
    /\ waiting = {}
    /\ worker = <<>>
    /\ retries = <<>>
    /\ events = 0
    /\ inflightEvents = <<>>
    /\ burst = <<>>
    /\ extra = <<>>

InitSync ==
    /\ SyncIdle
    /\ panicked = FALSE
    /\ ReloadIdle /\ MatchIdle /\ RenderIdle /\ QueueIdle

NextSync ==
    \/ \E m \in DesiredMonitors, listFails \in BOOLEAN, outcome \in {"ok", "err", "panic"} :
          AddOrUpdate(m, listFails, outcome)
    \/ \E m \in DesiredMonitors, listFails \in BOOLEAN :
          DeleteMonitor(m, listFails)

SpecSync == InitSync /\ [][NextSync]_vars

(***************************************************************************)
(* The ruleset store reloading its sources.                                *)
(***************************************************************************)
InitReload ==
    /\ ReloadIdle
    /\ panicked = FALSE
    /\ SyncIdle /\ MatchIdle /\ RenderIdle /\ QueueIdle

NextReload ==
    \E outcomes \in [DOMAIN MonitorDefinitionsPath -> SourceOutcomes] :
        reloadRulesets(outcomes)

SpecReload == InitReload /\ [][NextReload]_vars

(***************************************************************************)
(* One resource controller: events, workers, retries.  The workers' loops  *)
(* keep running and every reconcile ends, so Get and the two completions   *)
(* are weakly fair; events and backoff timers are not.                     *)
(***************************************************************************)
InitQueue ==
    /\ queue = <<>>
    /\ dirty = {}
    /\ processing = {}
    /\ waiting = {}
    /\ worker = [w \in Workers |-> <<>>]
    /\ retries = [k \in Keys |-> 0]
    /\ events = 0
    /\ inflightEvents = [k \in Keys |-> 0]
    /\ burst = [k \in Keys |-> 0]
    /\ extra = [k \in Keys |-> 0]
    /\ panicked = FALSE
    /\ SyncIdle /\ ReloadIdle /\ MatchIdle /\ RenderIdle

NextQueue ==
    \/ \E k \in Keys : OnEvent(k)
    \/ \E w \in Workers : Get(w)
    \/ \E w \in Workers : ReconcileSucceeded(w)
    \/ \E w \in Workers : ReconcileFailed(w)
    \/ \E k \in Keys : BackoffExpired(k)

SpecQueue ==
    /\ InitQueue
    /\ [][NextQueue]_vars
    /\ \A w \in Workers :
           /\ WF_vars(Get(w))
           /\ WF_vars(ReconcileSucceeded(w) \/ ReconcileFailed(w))

(***************************************************************************)
(* The renderer run on monitors and deployments.                           *)
(***************************************************************************)
InitRender ==
    /\ template \in Templates
    /\ deployment \in Deployments
    /\ rendered = <<>>
    /\ renderErrs = {}
    /\ panicked = FALSE
    /\ SyncIdle /\ ReloadIdle /\ MatchIdle /\ QueueIdle

NextRender == applyDeploymentTemplate(deployment, template)

SpecRender == InitRender /\ [][NextRender]_vars

(***************************************************************************)
(* The matcher run on a ruleset.                                           *)
(***************************************************************************)
InitMatch ==
    /\ Rulesets \in {[ClusterVariables |-> NilMap, MonitorSets |-> ms] :
                        ms \in SeqUpTo(MatchRules, MaxRules)}
    /\ fetch = <<>>
    /\ lastGood = [s \in DOMAIN MonitorDefinitionsPath |-> <<>>]
    /\ prior = EmptyRuleset
    /\ reloads = 0
    /\ panicked = FALSE
    /\ SyncIdle /\ MatchIdle /\ RenderIdle /\ QueueIdle

NextMatch ==
    \/ \E annotations \in ObjectAnnotations, objectType \in {"deployment", "binding"} :
          CallGetMatchingRulesets(annotations, objectType)
    \/ \E annotations \in ObjectAnnotations, objectType \in {"deployment", "binding"} :
          CallGetMatchingMonitors(annotations, objectType)
    \/ \E nsErr \in BOOLEAN, objectType \in {"deployment", "statefulset"} :
          \E nsAnnotations \in IF nsErr THEN {<<>>} ELSE ObjectAnnotations :
              CallGetBoundMonitors(nsErr, nsAnnotations, objectType)

SpecMatch == InitMatch /\ [][NextMatch]_vars

(***************************************************************************)
(* Properties of the sync helpers.                                         *)
(***************************************************************************)
\* The create, update and delete calls among cs.
WriteCalls(cs) == SelectSeq(cs, LAMBDA c : c.call # "list")

\* The index in the last listing of the first monitor named like the
\* operation's argument, 0 when there is none.
ListedIndex == FirstNamed(listed.monitors, op.monitor.Name, 1)

\* Desired monitor m and provisioned record dd agree on every field.
FieldsEqual(m, dd) ==
    /\ dd.Name = m.Name /\ dd.Type = m.Type /\ dd.Query = m.Query
    /\ dd.Message = m.Message /\ dd.Tags = m.Tags
    /\ dd.Options.NoDataTimeframe = m.NoDataTimeframe
    /\ dd.Options.NotifyAudit = m.NotifyAudit
    /\ dd.Options.NotifyNoData = m.NotifyNoData
    /\ dd.Options.RenotifyInterval = m.RenotifyInterval
    /\ dd.Options.NewHostDelay = m.NewHostDelay
    /\ dd.Options.EvaluationDelay = m.EvaluationDelay
    /\ dd.Options.TimeoutH = m.Timeout
    /\ dd.Options.EscalationMessage = m.EscalationMessage
    /\ dd.Options.Thresholds = m.Thresholds
    /\ dd.Options.RequireFullWindow = m.RequireFullWindow
    /\ dd.Options.Locked = m.Locked

\* C1: when the listing of the provisioned monitors fails during
\* AddOrUpdate, the operation ends with the error and issues no create and
\* no update; a create is issued only after a listing that succeeded and
\* holds no monitor with the desired name.
C1_ListFailureAborts ==
    op.kind = "AddOrUpdate" =>
        /\ listed.err => (op.err /\ WriteCalls(calls) = <<>>)
        /\ (\E i \in 1..Len(calls) : calls[i].call = "create")
               => (~listed.err /\ ListedIndex = 0)

\* C2: an AddOrUpdate that follows a successful AddOrUpdate of the same
\* desired monitor, and reads the provisioned monitors successfully, issues
\* no create, update or delete call.
C2_Idempotent ==
    [][ ( /\ op.kind = "AddOrUpdate" /\ ~op.err
          /\ op'.kind = "AddOrUpdate" /\ op'.monitor = op.monitor
          /\ ~listed'.err )
        => WriteCalls(calls') = <<>> ]_vars

\* C3: on a successful listing AddOrUpdate issues exactly the one action
\* its desired monitor's name selects: a create when no listed monitor has
\* the name, nothing when the one that has it is field-for-field equal, an
\* update replacing that very monitor when it differs; and no call names a
\* listed monitor of another name.
C3_OneActionByName ==
    (op.kind = "AddOrUpdate" /\ ~listed.err) =>
        LET i == ListedIndex
            w == WriteCalls(calls)
        IN  /\ i = 0 => w = <<createMonitor(toDdMonitor(op.monitor))>>
            /\ (i # 0 /\ FieldsEqual(op.monitor, listed.monitors[i])) => w = <<>>
            /\ (i # 0 /\ ~FieldsEqual(op.monitor, listed.monitors[i])) =>
                   /\ Len(w) = 1
                   /\ w[1].call = "update"
                   /\ w[1].id = listed.monitors[i].Id
                   /\ FieldsEqual(op.monitor, w[1].monitor)
            /\ \A k \in 1..Len(w), j \in 1..Len(listed.monitors) :
                   (w[k].call # "create" /\ listed.monitors[j].Name # op.monitor.Name)
                       => w[k].id # listed.monitors[j].Id

\* C10: DeleteMonitor issues a delete for the id of the owned provisioned
\* monitor with the given name when the listing succeeds and holds one;
\* otherwise it issues no delete and the process survives.
C10_DeleteRemoves ==
    op.kind = "DeleteMonitor" =>
        IF ~listed.err /\ ListedIndex # 0
        THEN WriteCalls(calls) = <<deleteMonitor(listed.monitors[ListedIndex].Id)>>
        ELSE WriteCalls(calls) = <<>> /\ ~panicked

(***************************************************************************)
(* Properties of the ruleset store.                                        *)
(***************************************************************************)
\* The sources that failed to load or parse in the last reload.
FailedSources == {s \in DOMAIN fetch : fetch[s].err # "none"}

\* C4: after a reload, the rules a failing source contributed in the last
\* reload where it succeeded are still in the current ruleset; when every
\* source fails the current ruleset is the previous one.
C4_KeepsLastKnownGood ==
    reloads > 0 =>
        /\ \A s \in FailedSources :
               lastGood[s] # <<>> =>
                   Range(lastGood[s][1]) \subseteq Range(Rulesets.MonitorSets)
        /\ FailedSources = DOMAIN fetch => Rulesets = prior

\* The rules of the sources i.. that succeeded, concatenated in source order.
RECURSIVE MergedRules(_, _)
MergedRules(outcomes, i) ==
    IF i > Len(outcomes) THEN <<>>
    ELSE (IF outcomes[i].err = "none" THEN outcomes[i].rSet.MonitorSets ELSE <<>>)
         \o MergedRules(outcomes, i + 1)

\* The sources that succeeded and define cluster variable k.
Defining(outcomes, k) ==
    {s \in DOMAIN outcomes :
        outcomes[s].err = "none" /\ k \in DOMAIN outcomes[s].rSet.ClusterVariables.kv}

\* The right-biased merge of the cluster variables of the sources that
\* succeeded.
MergedVariables(outcomes) ==
    LET keys == {k \in {"cluster", "region"} : Defining(outcomes, k) # {}}
    IN  [k \in keys |->
            LET s == CHOOSE x \in Defining(outcomes, k) :
                         \A y \in Defining(outcomes, k) : y <= x
            IN  outcomes[s].rSet.ClusterVariables.kv[k]]

\* C8: a reload completes and publishes the merge of the sources that
\* loaded and parsed: their rules concatenated in source order, and each
\* cluster variable with the value of the last source defining it.
C8_PublishesMerge ==
    reloads > 0 =>
        /\ ~panicked
        /\ Rulesets.MonitorSets = MergedRules(fetch, 1)
        /\ Rulesets.ClusterVariables.kv = MergedVariables(fetch)

(***************************************************************************)
(* Properties of the matcher.                                              *)
(***************************************************************************)
\* C5: every monitor GetBoundMonitors returns carries the tag
\* "dd-manager:bound_object".
C5_BoundMonitorsTagged ==
    (call # <<>> /\ call.fn = "GetBoundMonitors") =>
        \A i \in 1..Len(ret) : "dd-manager:bound_object" \in Range(ret[i].Tags)

\* Every annotation rule r requires is on the object with the required value.
HasAllRequired(r, annotations) ==
    \A i \in 1..Len(r.Annotations) :
        /\ r.Annotations[i].Name \in DOMAIN annotations
        /\ annotations[r.Annotations[i].Name] = r.Annotations[i].Value

\* C6: getMatchingRulesets selects a rule of the object's type that
\* requires at least one annotation exactly when the object carries every
\* required annotation with the required value.
C6_AnnotationConjunction ==
    (call # <<>> /\ call.fn = "getMatchingRulesets") =>
        \A i \in 1..Len(Rulesets.MonitorSets) :
            LET r == Rulesets.MonitorSets[i]
            IN  (r.ObjectType = call.objectType /\ Len(r.Annotations) >= 1) =>
                    (r \in Range(ret) <=> HasAllRequired(r, call.annotations))

\* C6's case: a rule requiring a=1 and b=2 is excluded for an object of its
\* type that carries a=1 only.
C6_Witness ==
    /\ call # <<>> /\ call.fn = "getMatchingRulesets"
    /\ call.objectType = "deployment"
    /\ call.annotations = [n \in {"a"} |-> "1"]
    /\ Rulesets.MonitorSets =
           <<MonitorSet("deployment", <<[Name |-> "a", Value |-> "1"],
                                        [Name |-> "b", Value |-> "2"]>>)>>
    /\ ret = <<>>

(***************************************************************************)
(* Properties of the renderer.                                             *)
(***************************************************************************)
\* Substitution succeeds on text: every action in it is well formed and
\* names a field of the deployment.
Substitutes(text) == Range(text) \cap {"{{.Missing}}", "{{"} = {}

\* The text with its actions replaced by the deployment's fields.
Substituted(text, d) ==
    [i \in 1..Len(text) |-> IF text[i] = "{{.Name}}" THEN d.Name ELSE text[i]]

\* C7: applyDeploymentTemplate does not abort; each of the four text
\* fields whose substitution succeeds holds its rendered value, and each
\* field whose substitution fails holds its unrendered template text.
C7_RenderingIndependence ==
    rendered # <<>> =>
        /\ ~panicked
        /\ \A f \in Range(TextFields) :
               rendered[f] = IF Substitutes(template[f])
                             THEN Substituted(template[f], deployment)
                             ELSE template[f]

(***************************************************************************)
(* Properties of the work queue.                                           *)
(***************************************************************************)
\* How often k stands in the queue.
Queued(k) == Cardinality({i \in 1..Len(queue) : queue[i] = k})

\* The workers reconciling k.
InFlight(k) == {w \in Workers : worker[w] = <<k>>}

\* At most one reconcile of k is in flight; and once a reconcile of k has
\* completed with at least one event arrived during it, until the next
\* enqueue of k, either k stands in the queue exactly once and no further
\* reconcile of it has started, or exactly one has and k is not queued.
Coalesced(k) ==
    /\ Cardinality(InFlight(k)) <= 1
    /\ burst[k] >= 1 =>
           \/ extra[k] = 0 /\ Queued(k) = 1 /\ InFlight(k) = {}
           \/ extra[k] = 1 /\ Queued(k) = 0 /\ Cardinality(InFlight(k)) = 1

\* C9: however many events for a key arrive while its reconcile is in
\* flight, exactly one further reconcile of the key follows the completion
\* of that one (it is queued once, and it is started), and never are two
\* reconciles of one key in flight.
C9_KeyCoalescing ==
    /\ [](\A k \in Keys : Coalesced(k))
    /\ \A k \in Keys :
           (burst[k] >= 1 /\ extra[k] = 0) ~> (extra[k] = 1 \/ burst[k] = 0)

\* C9's case: three events arrived during a reconcile of foo, that
\* reconcile has completed, and the one further reconcile is in flight.
C9_Witness ==
    /\ burst["owned-namespace/foo"] = 3
    /\ extra["owned-namespace/foo"] = 1
    /\ InFlight("owned-namespace/foo") # {}

(***************************************************************************)
(* Rules that require no annotation.                                       *)
(***************************************************************************)
\* The number of monitors of the rules i.. of the ruleset that require at
\* least one annotation.
RECURSIVE RequiringMonitors(_)
RequiringMonitors(i) ==
    IF i > Len(Rulesets.MonitorSets) THEN 0
    ELSE (IF Len(Rulesets.MonitorSets[i].Annotations) >= 1
          THEN Len(Rulesets.MonitorSets[i].Monitors) ELSE 0)
         + RequiringMonitors(i + 1)

\* C11: getMatchingRulesets never selects a rule whose list of required
\* annotations is empty, whatever the object's type and annotations; so
\* GetMatchingMonitors and GetBoundMonitors return monitors of rules that
\* require an annotation only, and none when no rule requires one.
C11_EmptyRuleNeverSelected ==
    call # <<>> =>
        IF call.fn = "getMatchingRulesets"
        THEN \A i \in 1..Len(ret) : Len(ret[i].Annotations) >= 1
        ELSE Len(ret) <= RequiringMonitors(1)

\* C11's case: a deployment rule requiring nothing, looked up for a
\* deployment, is not selected.
C11_Witness ==
    /\ call # <<>> /\ call.fn = "getMatchingRulesets"
    /\ call.objectType = "deployment"
    /\ Rulesets.MonitorSets = <<MonitorSet("deployment", <<>>)>>
    /\ ret = <<>>

====
